---- MODULE Spec2Model ----
\* Model of the drone-helm3 configuration loader: helm.NewConfig and
\* Config.logDebug, together with the behaviour of envconfig.Process that
\* NewConfig relies on (key construction from struct tags, lookup with the
\* alternate-name fallback, coercion to the field's type).
EXTENDS Integers, Sequences, FiniteSets, TLC

\* ---------------------------------------------------------------------------
\* Strings.  Go strings are modelled by TLA+ strings and processed character
\* by character, as the library code does.
\* ---------------------------------------------------------------------------

Char(s, i) == SubSeq(s, i, i)

RECURSIVE IndexFrom(_, _, _)
\* position of the one-character string c in s at or after i, 0 when absent
IndexFrom(s, c, i) ==
  IF i > Len(s) THEN 0
  ELSE IF Char(s, i) = c THEN i
  ELSE IndexFrom(s, c, i + 1)

\* unicode.ToUpper on the ASCII letters
UpperOf ==
  [a |-> "A", b |-> "B", c |-> "C", d |-> "D", e |-> "E", f |-> "F", g |-> "G",
   h |-> "H", i |-> "I", j |-> "J", k |-> "K", l |-> "L", m |-> "M", n |-> "N",
   o |-> "O", p |-> "P", q |-> "Q", r |-> "R", s |-> "S", t |-> "T", u |-> "U",
   v |-> "V", w |-> "W", x |-> "X", y |-> "Y", z |-> "Z"]

UpperChars == {UpperOf[c] : c \in DOMAIN UpperOf}

DigitChars == {"0", "1", "2", "3", "4", "5", "6", "7", "8", "9"}

IsUpperChar(c) == c \in UpperChars

IsDigitChar(c) == c \in DigitChars

ToUpperChar(c) == IF c \in DOMAIN UpperOf THEN UpperOf[c] ELSE c

\* strings.ToUpper: every character mapped, left to right
ToUpper(s) ==
  LET up[i \in 0..Len(s)] ==
        IF i = 0 THEN "" ELSE up[i - 1] \o ToUpperChar(Char(s, i))
  IN up[Len(s)]

\* the split_words rule of envconfig.gatherInfo: the field name is cut into
\* its camel-case words, which are joined with "_".  A word starts at an
\* upper-case letter that follows a non-upper-case letter, or that is
\* followed by a non-upper-case letter (the end of an acronym).
WordStartsAt(name, i) ==
  /\ i > 1
  /\ IsUpperChar(Char(name, i))
  /\ \/ ~IsUpperChar(Char(name, i - 1))
     \/ i < Len(name) /\ ~IsUpperChar(Char(name, i + 1))

SplitWords(name) ==
  LET join[i \in 0..Len(name)] ==
        IF i = 0 THEN ""
        ELSE join[i - 1] \o (IF WordStartsAt(name, i) THEN "_" ELSE "") \o Char(name, i)
  IN join[Len(name)]

RECURSIVE Split(_, _)
\* strings.Split(s, sep) for a one-character separator
Split(s, sep) ==
  LET i == IndexFrom(s, sep, 1)
  IN IF i = 0 THEN <<s>>
     ELSE <<SubSeq(s, 1, i - 1)>> \o Split(SubSeq(s, i + 1, Len(s)), sep)

RECURSIVE AllDigitsFrom(_, _)
AllDigitsFrom(s, i) ==
  IF i > Len(s) THEN TRUE
  ELSE IsDigitChar(Char(s, i)) /\ AllDigitsFrom(s, i + 1)

\* a mutation of justNumbers: the pattern `^\d*$`, which the empty string matches
justNumbersOrEmpty(s) == AllDigitsFrom(s, 1)

\* regexp.MustCompile(`^\d+$`).MatchString
justNumbers(s) == Len(s) > 0 /\ AllDigitsFrom(s, 1)

\* ---------------------------------------------------------------------------
\* The Config struct: one entry per field, in declaration order, with its
\* struct tags and its Go type.
\* ---------------------------------------------------------------------------

Fld(n, tag, split, ty) == [name |-> n, envconfig |-> tag, split_words |-> split, type |-> ty, ignored |-> FALSE]

Config ==
  << Fld("Command", "HELM_COMMAND", FALSE, "string"),
     Fld("DroneEvent", "DRONE_BUILD_EVENT", FALSE, "string"),
     Fld("UpdateDependencies", "", TRUE, "bool"),
     Fld("AddRepos", "HELM_REPOS", FALSE, "[]string"),
     Fld("Prefix", "", FALSE, "string"),
     Fld("Debug", "", FALSE, "bool"),
     Fld("Values", "", FALSE, "string"),
     Fld("StringValues", "", TRUE, "string"),
     Fld("ValuesFiles", "", TRUE, "[]string"),
     Fld("Namespace", "", FALSE, "string"),
     Fld("KubeToken", "KUBERNETES_TOKEN", FALSE, "string"),
     Fld("SkipTLSVerify", "SKIP_TLS_VERIFY", FALSE, "bool"),
     Fld("Certificate", "KUBERNETES_CERTIFICATE", FALSE, "string"),
     Fld("APIServer", "API_SERVER", FALSE, "string"),
     Fld("ServiceAccount", "", TRUE, "string"),
     Fld("ChartVersion", "", TRUE, "string"),
     Fld("DryRun", "", TRUE, "bool"),
     Fld("Wait", "", FALSE, "bool"),
     Fld("ReuseValues", "", TRUE, "bool"),
     Fld("Timeout", "", FALSE, "string"),
     Fld("Chart", "", FALSE, "string"),
     Fld("Release", "", FALSE, "string"),
     Fld("Force", "", FALSE, "bool"),
     [name |-> "Stdout", envconfig |-> "", split_words |-> FALSE, type |-> "io.Writer", ignored |-> TRUE],
     [name |-> "Stderr", envconfig |-> "", split_words |-> FALSE, type |-> "io.Writer", ignored |-> TRUE] >>

FieldNames == {Config[i].name : i \in 1..Len(Config)}

\* the fields filled from the environment (all but the two writers)
EnvFields == {Config[i].name : i \in {j \in 1..Len(Config) : ~Config[j].ignored}}

FieldOf ==
  [n \in FieldNames |-> CHOOSE d \in {Config[i] : i \in 1..Len(Config)} : d.name = n]

\* the nil io.Writer
NilWriter == "nil"

ZeroValue(ty) ==
  CASE ty = "string" -> ""
    [] ty = "bool" -> FALSE
    [] ty = "[]string" -> <<>>
    [] OTHER -> NilWriter

\* Config{} : every field at the zero value of its type
ZeroConfig == [n \in FieldNames |-> ZeroValue(FieldOf[n].type)]

\* ---------------------------------------------------------------------------
\* The environments and writers the model explores
\* ---------------------------------------------------------------------------

\* the largest number of variables set in the environment
MaxEnvVars == 3

\* the candidate variables and, for each, the values it may be given
EnvValues ==
  [k \in {"PLUGIN_PREFIX", "PREFIX",
          "PLUGIN_HELM_COMMAND", "HELM_COMMAND", "P_HELM_COMMAND",
          "Q_HELM_COMMAND", "P_PLUGIN_HELM_COMMAND",
          "PLUGIN_DEBUG", "DEBUG", "P_DEBUG",
          "PLUGIN_TIMEOUT", "TIMEOUT", "P_TIMEOUT",
          "PLUGIN_KUBERNETES_TOKEN", "KUBERNETES_TOKEN", "HELM_REPOS",
          "PLUGIN_STDOUT", "STDERR"} |->
     CASE k = "PLUGIN_PREFIX" -> {"", "p"}
       [] k = "PREFIX" -> {"", "Q", "p_plugin"}
       [] k = "PLUGIN_HELM_COMMAND" -> {"lint"}
       [] k = "HELM_COMMAND" -> {"upgrade"}
       [] k = "P_HELM_COMMAND" -> {"delete"}
       [] k = "Q_HELM_COMMAND" -> {"help"}
       [] k = "P_PLUGIN_HELM_COMMAND" -> {"sleep"}
       [] k = "PLUGIN_DEBUG" -> {"true", "maybe"}
       [] k = "DEBUG" -> {"true", "False", "maybe"}
       [] k = "P_DEBUG" -> {"0", "maybe"}
       [] k = "PLUGIN_TIMEOUT" -> {"42"}
       [] k = "TIMEOUT" -> {"5m0s", ""}
       [] k = "P_TIMEOUT" -> {"7", "2m30s"}
       [] k = "PLUGIN_KUBERNETES_TOKEN" -> {"hush"}
       [] k = "KUBERNETES_TOKEN" -> {"", "s3cr3t"}
       [] k = "PLUGIN_STDOUT" -> {"/dev/null"}
       [] k = "STDERR" -> {"/dev/null"}
       [] OTHER -> {"a=b,c=d"}]

\* the two destinations a caller passes: a writer for stdout, and nil or a
\* second writer for stderr
StdoutWriters == {"out"}

StderrWriters == {NilWriter, "err"}

\* ---------------------------------------------------------------------------
\* envconfig
\* ---------------------------------------------------------------------------

\* varInfo.Alt : the upper-cased envconfig tag
Alt == [n \in FieldNames |-> ToUpper(FieldOf[n].envconfig)]

\* varInfo.Key before the prefix is applied: the field name, cut into words
\* under split_words, replaced by the envconfig tag when there is one
BaseKey ==
  [n \in FieldNames |->
     IF Alt[n] # "" THEN Alt[n]
     ELSE IF FieldOf[n].split_words THEN SplitWords(n)
     ELSE n]

\* varInfo.Key : "<prefix>_<key>" under a non-empty prefix, upper-cased
KeyOf(pfx, n) ==
  ToUpper(IF pfx # "" THEN pfx \o "_" \o BaseKey[n] ELSE BaseKey[n])

\* the prefixes Process can be called with: the two literal ones and the
\* values the Prefix field can take
Prefixes == {"plugin", ""} \cup EnvValues["PLUGIN_PREFIX"] \cup EnvValues["PREFIX"]

\* KeyOf, tabulated once for these prefixes
KeyTable == [p \in Prefixes |-> ([n \in FieldNames |-> KeyOf(p, n)] @@ <<>>)] @@ <<>>

Key(pfx, n) ==
  IF pfx \in Prefixes THEN KeyTable[pfx][n] ELSE KeyOf(pfx, n)

\* strconv.ParseBool
ParseBool(s) ==
  IF s \in {"1", "t", "T", "TRUE", "true", "True"} THEN [err |-> FALSE, val |-> TRUE]
  ELSE IF s \in {"0", "f", "F", "FALSE", "false", "False"} THEN [err |-> FALSE, val |-> FALSE]
  ELSE [err |-> TRUE, val |-> FALSE]

RECURSIVE IsBlankFrom(_, _)
IsBlankFrom(s, i) ==
  IF i > Len(s) THEN TRUE ELSE Char(s, i) = " " /\ IsBlankFrom(s, i + 1)

\* a mutation of processField: a malformed boolean reads as false
processFieldLenient(value, ty) ==
  CASE ty = "bool" -> [err |-> FALSE, val |-> ParseBool(value).val]
    [] ty = "[]string" ->
         [err |-> FALSE,
          val |-> IF IsBlankFrom(value, 1) THEN <<>> ELSE Split(value, ",")]
    [] OTHER -> [err |-> FALSE, val |-> value]

\* envconfig.processField : the coercion of a raw value to the field's type
processField(value, ty) ==
  CASE ty = "bool" -> ParseBool(value)
    [] ty = "[]string" ->
         [err |-> FALSE,
          val |-> IF IsBlankFrom(value, 1) THEN <<>> ELSE Split(value, ",")]
    [] OTHER -> [err |-> FALSE, val |-> value]

\* a mutation of Lookup: the bare name is tried for every field, tagged or not
LookupBareForAll(pfx, n, e) ==
  IF Key(pfx, n) \in DOMAIN e THEN [ok |-> TRUE, value |-> e[Key(pfx, n)]]
  ELSE IF Key("", n) \in DOMAIN e THEN [ok |-> TRUE, value |-> e[Key("", n)]]
  ELSE [ok |-> FALSE, value |-> ""]

\* the lookup of envconfig.Process for one field: the prefixed key, and when
\* that is absent and the field has an envconfig tag, the bare tag
Lookup(pfx, n, e) ==
  IF Key(pfx, n) \in DOMAIN e THEN [ok |-> TRUE, value |-> e[Key(pfx, n)]]
  ELSE IF Alt[n] # "" /\ Alt[n] \in DOMAIN e THEN [ok |-> TRUE, value |-> e[Alt[n]]]
  ELSE [ok |-> FALSE, value |-> ""]

\* a mutation of Skipped: the ignored tag is not honoured
SkippedNever(d) == FALSE

\* gatherInfo leaves out the fields tagged ignored:"true"
Skipped(d) == d.ignored

RECURSIVE ProcessFrom(_, _, _, _)
ProcessFrom(i, pfx, c, e) ==
  IF i > Len(Config) THEN [err |-> FALSE, cfg |-> c]
  ELSE IF Skipped(Config[i]) THEN ProcessFrom(i + 1, pfx, c, e)
  ELSE LET n == Config[i].name
           l == Lookup(pfx, n, e)
       IN IF ~l.ok THEN ProcessFrom(i + 1, pfx, c, e)
          ELSE LET r == processField(l.value, Config[i].type)
               IN IF r.err THEN [err |-> TRUE, cfg |-> c]
                  ELSE ProcessFrom(i + 1, pfx, [c EXCEPT ![n] = r.val], e)

\* envconfig.Process(prefix, &cfg) on environment e: the fields are visited in
\* declaration order and the first coercion failure ends the pass
Process(pfx, c, e) == ProcessFrom(1, pfx, c, e)

\* ---------------------------------------------------------------------------
\* NewConfig, statement by statement
\* ---------------------------------------------------------------------------

\* cfg := Config{Stdout: stdout, Stderr: stderr}
InitialConfig(so, se) == [ZeroConfig EXCEPT !.Stdout = so, !.Stderr = se]

\* envconfig.Process("plugin", &cfg)
PluginPass(c, e) == Process("plugin", c, e)

\* envconfig.Process("", &cfg)
BarePass(c, e) == Process("", c, e)

\* the namespace handed to the third call of envconfig.Process
ThirdNamespace(captured, c) == c.Prefix

\* a mutation of PrefixedPass: the guard reads cfg.Prefix, not the captured prefix
PrefixedPassOnCurrent(captured, c, e) ==
  IF c.Prefix # "" THEN Process(ThirdNamespace(captured, c), c, e)
  ELSE [err |-> FALSE, cfg |-> c]

\* if prefix != "" { envconfig.Process(cfg.Prefix, &cfg) }
PrefixedPass(captured, c, e) ==
  IF captured # "" THEN Process(ThirdNamespace(captured, c), c, e)
  ELSE [err |-> FALSE, cfg |-> c]

\* if justNumbers.MatchString(cfg.Timeout) { cfg.Timeout = cfg.Timeout + "s" }
InferSeconds(c) ==
  IF justNumbers(c.Timeout) THEN [c EXCEPT !.Timeout = c.Timeout \o "s"] ELSE c

\* a mutation of ShouldLog: the debug flag is not consulted
ShouldLogAlways(c) == c.Stderr # NilWriter

\* the condition under which NewConfig calls cfg.logDebug()
ShouldLog(c) == c.Debug /\ c.Stderr # NilWriter

\* a mutation of Redact: the token is left as it is
RedactNothing(c) == c

\* the redaction logDebug applies to its own copy of the record
Redact(c) ==
  IF c.KubeToken # "" THEN [c EXCEPT !.KubeToken = "(redacted)"] ELSE c

\* Config.logDebug: the line written to cfg.Stderr, "%+v" rendering the
\* receiver's copy field by field
logDebug(c) == [text |-> "Generated config: ", fields |-> Redact(c)]

\* the pointer returned by NewConfig: <<>> is nil, <<c>> is &cfg
Failure == [cfg |-> <<>>, err |-> TRUE]

Success(c) == [cfg |-> <<c>>, err |-> FALSE]

\* NewConfig(stdout, stderr) as a function of the environment: the returned
\* pair and the lines written to stderr
NewConfig(so, se, e) ==
  LET p1 == PluginPass(InitialConfig(so, se), e)
      captured == p1.cfg.Prefix
      p2 == BarePass(p1.cfg, e)
      p3 == PrefixedPass(captured, p2.cfg, e)
      c == InferSeconds(p3.cfg)
  IN IF p1.err \/ p2.err \/ p3.err THEN [ret |-> Failure, lines |-> <<>>]
     ELSE [ret |-> Success(c),
           lines |-> IF ShouldLog(c) THEN <<logDebug(c)>> ELSE <<>>]

\* ---------------------------------------------------------------------------
\* State
\* ---------------------------------------------------------------------------

VARIABLES
  env,      \* the process environment: a function from variable names to values
  pc,       \* the position of the call of NewConfig
  stdout,   \* the first argument of NewConfig
  stderr,   \* the second argument of NewConfig
  cfg,      \* the local cfg of NewConfig
  prefix,   \* the local prefix of NewConfig
  ret,      \* the pair NewConfig returned
  written   \* the lines each writer has received

vars == <<env, pc, stdout, stderr, cfg, prefix, ret, written>>

NoReturn == [cfg |-> <<>>, err |-> FALSE]

Init ==
  /\ env = <<>>
  /\ pc = "env"
  /\ stdout = NilWriter
  /\ stderr = NilWriter
  /\ cfg = ZeroConfig
  /\ prefix = ""
  /\ ret = NoReturn
  /\ written = [w \in {"out", "err"} |-> <<>>]

\* os.Setenv(key, val), before the call
Setenv(key, val) ==
  /\ pc = "env"
  /\ key \in DOMAIN env \/ Cardinality(DOMAIN env) < MaxEnvVars
  /\ env' = [k \in DOMAIN env \cup {key} |-> IF k = key THEN val ELSE env[k]]
  /\ UNCHANGED <<pc, stdout, stderr, cfg, prefix, ret, written>>

\* the call NewConfig(so, se) and the construction of cfg
Call(so, se) ==
  /\ pc = "env"
  /\ stdout' = so
  /\ stderr' = se
  /\ cfg' = InitialConfig(so, se)
  /\ pc' = "plugin"
  /\ UNCHANGED <<env, prefix, ret, written>>

\* the first pass, its error return, and prefix := cfg.Prefix
FixedPrefixStep ==
  /\ pc = "plugin"
  /\ LET r == PluginPass(cfg, env)
     IN /\ cfg' = r.cfg
        /\ IF r.err
           THEN pc' = "done" /\ ret' = Failure /\ UNCHANGED prefix
           ELSE pc' = "bare" /\ prefix' = r.cfg.Prefix /\ UNCHANGED ret
  /\ UNCHANGED <<env, stdout, stderr, written>>

\* the second pass and its error return
UnprefixedStep ==
  /\ pc = "bare"
  /\ LET r == BarePass(cfg, env)
     IN /\ cfg' = r.cfg
        /\ IF r.err
           THEN pc' = "done" /\ ret' = Failure
           ELSE pc' = "prefixed" /\ UNCHANGED ret
  /\ UNCHANGED <<env, stdout, stderr, prefix, written>>

\* the guarded third pass and its error return
ConfigurablePrefixStep ==
  /\ pc = "prefixed"
  /\ LET r == PrefixedPass(prefix, cfg, env)
     IN /\ cfg' = r.cfg
        /\ IF r.err
           THEN pc' = "done" /\ ret' = Failure
           ELSE pc' = "timeout" /\ UNCHANGED ret
  /\ UNCHANGED <<env, stdout, stderr, prefix, written>>

\* the seconds inference on cfg.Timeout
TimeoutStep ==
  /\ pc = "timeout"
  /\ cfg' = InferSeconds(cfg)
  /\ pc' = "debug"
  /\ UNCHANGED <<env, stdout, stderr, prefix, ret, written>>

\* if cfg.Debug && cfg.Stderr != nil { cfg.logDebug() }
DebugStep ==
  /\ pc = "debug"
  /\ IF ShouldLog(cfg)
     THEN written' = [written EXCEPT ![cfg.Stderr] = Append(@, logDebug(cfg))]
     ELSE UNCHANGED written
  /\ pc' = "return"
  /\ UNCHANGED <<env, stdout, stderr, cfg, prefix, ret>>

\* return &cfg, nil
ReturnStep ==
  /\ pc = "return"
  /\ ret' = Success(cfg)
  /\ pc' = "done"
  /\ UNCHANGED <<env, stdout, stderr, cfg, prefix, written>>

Next ==
  \/ \E key \in DOMAIN EnvValues : \E val \in EnvValues[key] : Setenv(key, val)
  \/ \E so \in StdoutWriters, se \in StderrWriters : Call(so, se)
  \/ FixedPrefixStep
  \/ UnprefixedStep
  \/ ConfigurablePrefixStep
  \/ TimeoutStep
  \/ DebugStep
  \/ ReturnStep

Spec == Init /\ [][Next]_vars

\* ---------------------------------------------------------------------------
\* Properties
\* ---------------------------------------------------------------------------

Has(k) == k \in DOMAIN env

\* the value of PLUGIN_PREFIX, "" when it is absent
PluginPrefix == IF Has("PLUGIN_PREFIX") THEN env["PLUGIN_PREFIX"] ELSE ""

\* the field's variable-name suffix
Suffix(n) == Key("", n)

\* the variable "<NS>_<SUFFIX>" of a field, "<SUFFIX>" under the empty namespace
Var(ns, n) == IF ns = "" THEN Suffix(n) ELSE ToUpper(ns) \o "_" \o Suffix(n)

\* the value of a present variable, coerced to the type of field n
Coerced(n, k) == processField(env[k], FieldOf[n].type).val

\* the environment e without variable k, and with k set to v
Without(e, k) == [x \in DOMAIN e \ {k} |-> e[x]]

With(e, k, v) == [x \in DOMAIN e \cup {k} |-> IF x = k THEN v ELSE e[x]]

OnlyDigits(str) == \A i \in 1..Len(str) : Char(str, i) \in DigitChars

\* what a field holds when only the unprefixed and the fixed-prefix variables count
BareThenPlugin(n) ==
  IF Has(Var("", n)) THEN Coerced(n, Var("", n))
  ELSE IF Has(Var("PLUGIN", n)) THEN Coerced(n, Var("PLUGIN", n))
  ELSE ZeroValue(FieldOf[n].type)

\* C3: when PLUGIN_PREFIX is absent or empty, the third pass changes nothing,
\* whatever the bare PREFIX variable holds, and every field then holds the
\* unprefixed value if present, else the fixed-prefix value, else its zero value.
C3_NoThirdPassWithoutPluginPrefix ==
  [][(pc = "prefixed" /\ PluginPrefix = "")
       => /\ cfg' = cfg
          /\ pc' = "timeout"
          /\ \A n \in EnvFields : cfg'[n] = BareThenPlugin(n)]_vars

\* C3 happens: no PLUGIN_PREFIX, PREFIX=Q and a Q_ variable set, third pass over
C3_Witness ==
  /\ pc = "timeout"
  /\ PluginPrefix = ""
  /\ Has("PREFIX") /\ env["PREFIX"] = "Q"
  /\ Has("Q_HELM_COMMAND")
  /\ cfg.Prefix = "Q"

\* C4: the line logDebug writes shows the token as "(redacted)" exactly when
\* the token is non-empty and as empty otherwise, never shows the raw
\* non-empty token, and the record of the caller, which NewConfig then
\* returns, keeps its token.
C4_LogRedactsTokenOnly ==
  [][/\ (pc = "debug" /\ ShouldLog(cfg))
          => LET line == written'[cfg.Stderr][Len(written'[cfg.Stderr])]
             IN /\ (line.fields.KubeToken = "(redacted)") <=> (cfg.KubeToken # "")
                /\ cfg.KubeToken = "" => line.fields.KubeToken = ""
                /\ cfg.KubeToken # "" => line.fields.KubeToken # cfg.KubeToken
                /\ cfg'.KubeToken = cfg.KubeToken
     /\ pc = "return" => /\ ret'.cfg # <<>>
                         /\ ret'.cfg[1].KubeToken = cfg.KubeToken]_vars

\* C4 happens: a line was written for a record with a non-empty token
C4_Witness ==
  /\ pc = "done"
  /\ written["err"] # <<>>
  /\ ret.cfg # <<>>
  /\ ret.cfg[1].KubeToken = "s3cr3t"

\* C5: the seconds inference appends "s" to a timeout that is non-empty and
\* all decimal digits and leaves any other timeout as it is; it is
\* idempotent; and the value it produced is the one returned.
C5_NumericTimeoutGetsSeconds ==
  [][/\ pc = "timeout"
          => /\ cfg'.Timeout = IF cfg.Timeout # "" /\ OnlyDigits(cfg.Timeout)
                               THEN cfg.Timeout \o "s" ELSE cfg.Timeout
             /\ InferSeconds(cfg') = cfg'
     /\ pc = "debug" => cfg'.Timeout = cfg.Timeout
     /\ pc = "return" => /\ ret'.cfg # <<>>
                         /\ ret'.cfg[1].Timeout = cfg.Timeout]_vars

\* C5 happens: the numeric timeout of the third pass was returned with its unit
C5_Witness ==
  /\ pc = "done"
  /\ ret.cfg # <<>>
  /\ Has("P_TIMEOUT") /\ env["P_TIMEOUT"] = "7"
  /\ ret.cfg[1].Timeout = "7s"

\* the namespace of the pass about to run, in the three pass positions
PassNamespace ==
  CASE pc = "plugin" -> "plugin"
    [] pc = "bare" -> ""
    [] OTHER -> cfg.Prefix

\* the pass at the current position runs (the third one is guarded)
PassRuns == pc \in {"plugin", "bare"} \/ (pc = "prefixed" /\ prefix # "")

\* a variable the pass about to run reads is present and cannot be coerced
BadVariable ==
  \E n \in EnvFields :
     /\ Has(Key(PassNamespace, n))
     /\ FieldOf[n].type = "bool"
     /\ env[Key(PassNamespace, n)] \notin
          {"1", "t", "T", "TRUE", "true", "True", "0", "f", "F", "FALSE", "false", "False"}

\* C6: a pass that meets a value it cannot coerce makes NewConfig return a
\* failure and no record, no later pass runs, and nothing follows the return.
C6_CoercionFailureReturnsNoRecord ==
  [][/\ (PassRuns /\ BadVariable)
          => /\ pc' = "done"
             /\ ret'.err
             /\ ret'.cfg = <<>>
     /\ pc = "done" => UNCHANGED vars]_vars

\* C6 happens: the first pass failed on PLUGIN_DEBUG although DEBUG was valid
C6_Witness ==
  /\ pc = "done"
  /\ ret.err
  /\ Has("PLUGIN_DEBUG") /\ env["PLUGIN_DEBUG"] = "maybe"
  /\ Has("DEBUG") /\ env["DEBUG"] = "true"

\* C7: stdout never receives anything; stderr holds exactly one line,
\* beginning "Generated config: ", after a successful call whose final debug
\* flag is true and whose stderr was supplied, and nothing in any other case.
C7_AtMostOneLineOnStderr ==
  /\ written["out"] = <<>>
  /\ pc \notin {"return", "done"} => written["err"] = <<>>
  /\ pc \in {"return", "done"} =>
       IF ~ret.err /\ cfg.Debug /\ stderr # NilWriter
       THEN /\ Len(written["err"]) = 1
            /\ written["err"][1].text = "Generated config: "
       ELSE written["err"] = <<>>

\* C7 happens: a successful call with debug on wrote its line
C7_Witness ==
  /\ pc = "done"
  /\ ~ret.err
  /\ Len(written["err"]) = 1
  /\ stdout = "out"

\* C9: the record a successful call returns carries the two destinations
\* passed in, whatever the environment holds.
C9_WritersArePreserved ==
  (pc = "done" /\ ~ret.err)
    => /\ ret.cfg # <<>>
       /\ ret.cfg[1].Stdout = stdout
       /\ ret.cfg[1].Stderr = stderr

\* C9 happens: a successful call with both writers and PLUGIN_STDOUT, STDERR set
C9_Witness ==
  /\ pc = "done"
  /\ ~ret.err
  /\ stdout = "out" /\ stderr = "err"
  /\ Has("PLUGIN_STDOUT") /\ Has("STDERR")

\* what the precedence rule says field n holds after the three passes: the
\* P_ variable under PLUGIN_PREFIX = P, else the unprefixed one, else the
\* fixed-prefix one
PrecedenceHolds(n) ==
  IF PluginPrefix # "" /\ Has(Var(PluginPrefix, n))
    THEN cfg[n] = Coerced(n, Var(PluginPrefix, n))
  ELSE IF Has(Var("", n)) THEN cfg[n] = Coerced(n, Var("", n))
  ELSE IF Has(Var("PLUGIN", n)) THEN cfg[n] = Coerced(n, Var("PLUGIN", n))
  ELSE TRUE

\* C1: once the three passes have succeeded, and before the seconds
\* inference, every field follows the precedence configurable-prefix >
\* unprefixed > fixed-prefix, the configurable prefix being PLUGIN_PREFIX.
C1_PrecedenceOfNamespaces ==
  pc = "timeout" => \A n \in EnvFields : PrecedenceHolds(n)

\* the returned fields other than Prefix agree
SameButPrefix(r1, r2) ==
  /\ r1.err = r2.err
  /\ ~r1.err => \A n \in FieldNames \ {"Prefix"} : r1.cfg[1][n] = r2.cfg[1][n]

\* C2: under a non-empty PLUGIN_PREFIX, the result of the call does not
\* depend, outside the Prefix field, on whether and how the bare PREFIX
\* variable is set.
C2_BarePrefixDoesNotRedirect ==
  (pc = "done" /\ PluginPrefix # "")
    => /\ SameButPrefix(ret, NewConfig(stdout, stderr, Without(env, "PREFIX")).ret)
       /\ \A q \in EnvValues["PREFIX"] :
            SameButPrefix(ret, NewConfig(stdout, stderr, With(env, "PREFIX", q)).ret)

\* C8: under PLUGIN_PREFIX = P, a variable P_PLUGIN_<SUFFIX> is irrelevant:
\* unsetting it leaves the result of the call as it is.
C8_PrefixedPluginVariableIrrelevant ==
  (pc = "done" /\ PluginPrefix # "")
    => \A n \in EnvFields :
         LET k == Var(PluginPrefix \o "_PLUGIN", n)
         IN Has(k) => NewConfig(stdout, stderr, Without(env, k)).ret = ret

\* the variable of field n in namespace ns is absent
Absent(ns, n) == ~Has(Var(ns, n))

Unread(ns, n) == Absent(ns, n) /\ (FieldOf[n].envconfig = "" \/ Absent("", n))

====
